---- MODULE Spec2Model ----
(***************************************************************************)
(* Fleet Tracker: the LocationService singleton (services/LocationService  *)
(* .js) and the App session state machine that drives it.                  *)
(*                                                                         *)
(* Scheduling model.  JavaScript runs one task at a time; a task gives up  *)
(* control only at an `await`.  Every action below is one such slice: the  *)
(* continuation of the previous await, the synchronous code that follows,  *)
(* and the issue of the next asynchronous call.  AsyncStorage serves calls *)
(* in issue order, so a storage call takes effect in the slice that issues *)
(* it and its result is consumed in the task's next slice.                 *)
(***************************************************************************)
EXTENDS Integers, Sequences, FiniteSets, TLC

\* ---- bounds of the model ------------------------------------------------
\* The queue capacity (the literal 2000 of enqueue) and the flush batch size
\* (CHUNK_SIZE = 50) are scaled down; every definition below is written in
\* terms of the two names, as the code is in terms of the two numbers.
QueueCapacity == 4
CHUNK_SIZE == 2
\* samples the acquisition layer delivers in one run
MaxSamples == 2
\* handleLocationUpdate calls that can be in progress at once
MaxHandlers == 2
\* flushQueue runs that can be in progress at once
MaxFlush == 2
\* runPoll calls that can be in progress at once
MaxPolls == 2
\* changes of the shift assignment on the server in one run
MaxShiftChanges == 3
\* samples delivered in one run of the App with the service
AppMaxSamples == 1
\* accuracy readings, in metres, the filter is checked on
MaxAccuracy == 300
\* foreground watchers registered at once when startTracking is called again
MaxWatchers == 2

\* ---- program constants --------------------------------------------------
MAX_ACCEPTABLE_ACCURACY_METERS == 150

NULL == "null"
Technicians == {"T1", "T2"}
Users == {"U1"}
\* coords.accuracy: <<>> is null, <<m>> a reading of m metres
AccuracyValues == {<<>>, <<150>>, <<151>>}
\* the App's lastLocation after setLastLocation(loc): some sample is shown
\* (which one is not kept)
Shown == "loc"

VARIABLES
  \* LocationService instance fields
  technicianId, userId, isTracking, usingBackgroundTask, syncInterval,
  foregroundSubscription, foregroundCallback,
  \* the operating system's side of the acquisition registrations, and the
  \* number of intervals set by init that the runtime keeps firing
  taskRegistered, liveWatchers, activeTimers,
  \* AsyncStorage
  offlineQueue, sessionItem, registrationItem,
  \* tasks in progress
  handlers, flushes, tasks,
  \* App component state
  screen, registeredUser, activeSession, pollError, pollIntervalRef,
  trackingInterval, lastLocation,
  \* environment
  connected, stable, serverShift, shiftChanges, nextId,
  \* history: the POSTs issued, by the identifiers their pings carry and
  \* the identifiers bound when they were issued; the pings built; the pings
  \* accepted by the collector (2xx), evicted by the capacity bound or
  \* removed by clearQueue; the pings enqueued with no identifiers bound
  posted, created, released, enqueuedUnbound

lsVars == <<technicianId, userId, isTracking, usingBackgroundTask,
            syncInterval, foregroundSubscription, foregroundCallback,
            taskRegistered, liveWatchers, activeTimers>>
storeVars == <<offlineQueue, sessionItem, registrationItem>>
appVars == <<screen, registeredUser, activeSession, pollError,
             pollIntervalRef, trackingInterval, lastLocation>>
envVars == <<connected, stable, serverShift, shiftChanges>>
histVars == <<posted, created, released, enqueuedUnbound>>
vars == <<lsVars, storeVars, appVars, envVars, histVars, handlers, flushes,
          tasks, nextId>>

\* ---- values -------------------------------------------------------------
Min(a, b) == IF a < b THEN a ELSE b
Range(s) == {s[i] : i \in 1..Len(s)}

\* A stored item: AsyncStorage.getItem gives null for a missing key and the
\* stored JSON text otherwise; JSON.stringify / JSON.parse of an array of
\* pings give the array back, so the item holds the array itself.
NoItem == [has |-> FALSE, val |-> <<>>]
Item(q) == [has |-> TRUE, val |-> q]

NoSession == [user |-> NULL, technician |-> NULL]

\* payload of handleLocationUpdate: the identifiers bound when it is built
\* and the sample (id stands for lat, lng, accuracy, ..., timestamp)
Payload(tech, user, id) == [technicianId |-> tech, userId |-> user, id |-> id]

\* pings left in storage by an earlier run of the process
OldPing(i) == Payload("T1", "U1", i)
OldQueue(n) == [i \in 1..n |-> OldPing(i)]

IdleHandler == [pc |-> "idle", payload |-> Payload(NULL, NULL, 0), raw |-> NoItem]
IdleFlush == [pc |-> "idle", raw |-> NoItem, i |-> 0, sent |-> 0,
              batches |-> <<>>, failedAt |-> 0]
IdleTask == [pc |-> "idle", kind |-> "none", user |-> NULL, technician |-> NULL]

HandlerIds == 1..MaxHandlers
FlushIds == 1..MaxFlush
BootTask == 0
PollIds == 1..MaxPolls
TaskIds == {BootTask} \cup PollIds

Bound == technicianId # NULL /\ userId # NULL

\* ---- pure helpers of LocationService ------------------------------------
\* faulty variant: the threshold itself is rejected
AccuracyRejectedInclusive(accuracy) ==
  accuracy # <<>> /\ accuracy[1] >= MAX_ACCEPTABLE_ACCURACY_METERS

\* the accuracy filter of handleLocationUpdate
AccuracyRejected(accuracy) ==
  accuracy # <<>> /\ accuracy[1] > MAX_ACCEPTABLE_ACCURACY_METERS

\* raw ? JSON.parse(raw) : []
ParseQueue(raw) == IF raw.has THEN raw.val ELSE <<>>

\* faulty variants of the splice: no truncation; truncation from the end
SpliceNever(queue) == queue

SpliceNewest(queue) ==
  IF Len(queue) > QueueCapacity THEN SubSeq(queue, 1, QueueCapacity) ELSE queue

\* if (queue.length > 2000) queue.splice(0, queue.length - 2000)
Splice(queue) ==
  IF Len(queue) > QueueCapacity
  THEN SubSeq(queue, Len(queue) - QueueCapacity + 1, Len(queue))
  ELSE queue

\* faulty variant: the payload is pushed twice
EnqueueTwice(raw, payload) ==
  Splice(Append(Append(ParseQueue(raw), payload), payload))

\* faulty variant: a missing item is not taken for an empty queue
EnqueueNeedsItem(raw, payload) ==
  IF raw.has THEN Splice(Append(raw.val, payload)) ELSE <<>>

\* the array enqueue writes back
EnqueueResult(raw, payload) == Splice(Append(ParseQueue(raw), payload))

\* queue.slice(i, i + CHUNK_SIZE)
Chunk(queue, i) == SubSeq(queue, i + 1, Min(i + CHUNK_SIZE, Len(queue)))

\* faulty variant: the whole array is written back
RemainingAll(queue, sent) == queue

\* queue.slice(sent)
Remaining(queue, sent) == SubSeq(queue, sent + 1, Len(queue))

\* faulty variant: no break on a failed batch
LoopIgnoresFailure(ok, i, queue) == i + CHUNK_SIZE < Len(queue)

\* the batch loop goes on to another POST: the response was ok (no break)
\* and the loop condition i < queue.length holds after i += CHUNK_SIZE
LoopContinues(ok, i, queue) == ok /\ i + CHUNK_SIZE < Len(queue)

\* faulty variant: a failed batch is counted as sent
SentAfterAlways(ok, sent, chunk) == sent + Len(chunk)

\* sent after a response: sent += chunk.length only if res.ok
SentAfter(ok, sent, chunk) == IF ok THEN sent + Len(chunk) ELSE sent

\* ---- initial state ------------------------------------------------------
\* What an earlier run of the process can have left in AsyncStorage: nothing,
\* a registration, or a registration with the session of a shift in progress
\* and the pings that shift had queued.
InitStores ==
  {<<NoItem, NoSession, NULL>>, <<NoItem, NoSession, "U1">>}
  \cup {<<q, [user |-> "U1", technician |-> "T1"], "U1">> :
          q \in {NoItem, Item(OldQueue(QueueCapacity - 1)),
                 Item(OldQueue(QueueCapacity))}}

\* the LocationService constructor
InitService ==
  /\ technicianId = NULL
  /\ userId = NULL
  /\ isTracking = FALSE
  /\ usingBackgroundTask = FALSE
  /\ syncInterval = FALSE
  /\ foregroundSubscription = FALSE
  /\ foregroundCallback = FALSE
  /\ taskRegistered = FALSE
  /\ liveWatchers = 0
  /\ activeTimers = 0
  /\ handlers = [h \in HandlerIds |-> IdleHandler]
  /\ flushes = [f \in FlushIds |-> IdleFlush]

InitHistory ==
  /\ posted = {}
  /\ created = {}
  /\ released = {}
  /\ enqueuedUnbound = {}

\* ---- handleLocationUpdate -----------------------------------------------
FreeHandler ==
  CHOOSE h \in HandlerIds :
    /\ handlers[h].pc = "idle"
    /\ \A g \in HandlerIds : g < h => handlers[g].pc # "idle"

\* The foreground watcher calls the handler without awaiting the previous
\* call; the background task awaits each call before the next.
AcquisitionDelivers ==
  \/ liveWatchers > 0
  \/ taskRegistered /\ \A h \in HandlerIds : handlers[h].pc = "idle"

PostRecord(p) ==
  [carried |-> <<p.technicianId, p.userId>>, bound |-> <<technicianId, userId>>]

\* faulty variants of the synchronous part: no guard on the identifiers;
\* a rejected sample is not shown
HandleUnguarded(bound, callback, accuracy) ==
  [callbacks |-> IF callback THEN 1 ELSE 0,
   builds |-> ~AccuracyRejected(accuracy)]

HandleRejectedUnshown(bound, callback, accuracy) ==
  IF ~bound \/ AccuracyRejected(accuracy)
  THEN [callbacks |-> 0, builds |-> FALSE]
  ELSE [callbacks |-> IF callback THEN 1 ELSE 0, builds |-> TRUE]

\* The synchronous part of handleLocationUpdate: how many times it calls
\* foregroundCallback with the sample, and whether it goes on to build the
\* payload and attempt delivery.
HandleSync(bound, callback, accuracy) ==
  IF ~bound
  THEN [callbacks |-> 0, builds |-> FALSE]
  ELSE IF AccuracyRejected(accuracy)
  THEN [callbacks |-> IF callback THEN 1 ELSE 0, builds |-> FALSE]
  ELSE [callbacks |-> IF callback THEN 1 ELSE 0, builds |-> TRUE]

\* A sample reaches handleLocationUpdate: the guard on the identifiers, the
\* accuracy filter, the callback (the App's setLastLocation), the payload,
\* and the call of NetInfo.fetch.
SampleArrives(accuracy) ==
  /\ AcquisitionDelivers
  /\ lastLocation' =
       IF HandleSync(Bound, foregroundCallback, accuracy).callbacks > 0
       THEN Shown ELSE lastLocation
  /\ IF HandleSync(Bound, foregroundCallback, accuracy).builds
     THEN /\ nextId <= QueueCapacity + MaxSamples
          /\ \E h \in HandlerIds : handlers[h].pc = "idle"
          /\ nextId' = nextId + 1
          /\ handlers' = [handlers EXCEPT ![FreeHandler] =
               [pc |-> "net",
                payload |-> Payload(technicianId, userId, nextId),
                raw |-> NoItem]]
          /\ created' = created \cup {Payload(technicianId, userId, nextId)}
     ELSE UNCHANGED <<handlers, nextId, created>>
  /\ UNCHANGED <<lsVars, storeVars, screen, registeredUser, activeSession,
                 pollError, pollIntervalRef, trackingInterval, envVars,
                 posted, released, enqueuedUnbound, flushes, tasks>>

\* NetInfo.fetch resolves connected: postLocation issues the POST.
HandlerOnline(h) ==
  /\ handlers[h].pc = "net"
  /\ connected
  /\ handlers' = [handlers EXCEPT ![h].pc = "post"]
  /\ posted' = posted \cup {PostRecord(handlers[h].payload)}
  /\ UNCHANGED <<lsVars, storeVars, appVars, envVars, created, released,
                 enqueuedUnbound, flushes, tasks, nextId>>

\* NetInfo.fetch resolves not connected: enqueue reads the queue.
HandlerOffline(h) ==
  /\ handlers[h].pc = "net"
  /\ ~connected
  /\ handlers' = [handlers EXCEPT ![h].pc = "enq", ![h].raw = offlineQueue]
  /\ UNCHANGED <<lsVars, storeVars, appVars, envVars, histVars, flushes,
                 tasks, nextId>>

\* NetInfo.fetch rejects: the catch calls enqueue, which reads the queue.
HandlerNetError(h) ==
  /\ handlers[h].pc = "net"
  /\ ~stable
  /\ handlers' = [handlers EXCEPT ![h].pc = "enq", ![h].raw = offlineQueue]
  /\ UNCHANGED <<lsVars, storeVars, appVars, envVars, histVars, flushes,
                 tasks, nextId>>

\* The POST is answered 2xx: the sample is done.
HandlerPostOk(h) ==
  /\ handlers[h].pc = "post"
  /\ handlers' = [handlers EXCEPT ![h] = IdleHandler]
  /\ released' = released \cup {handlers[h].payload}
  /\ UNCHANGED <<lsVars, storeVars, appVars, envVars, posted, created,
                 enqueuedUnbound, flushes, tasks, nextId>>

\* The POST fails (non-2xx, network error, 8 s abort): enqueue reads the queue.
HandlerPostFails(h) ==
  /\ handlers[h].pc = "post"
  /\ ~stable
  /\ handlers' = [handlers EXCEPT ![h].pc = "enq", ![h].raw = offlineQueue]
  /\ UNCHANGED <<lsVars, storeVars, appVars, envVars, histVars, flushes,
                 tasks, nextId>>

\* enqueue after its getItem: push, splice, setItem.
HandlerEnqueue(h) ==
  LET p == handlers[h].payload
      raw == handlers[h].raw
      result == EnqueueResult(raw, p)
  IN /\ handlers[h].pc = "enq"
     /\ offlineQueue' = Item(result)
     /\ released' = released \cup (Range(Append(ParseQueue(raw), p)) \ Range(result))
     /\ enqueuedUnbound' = IF Bound THEN enqueuedUnbound
                           ELSE enqueuedUnbound \cup {p}
     /\ handlers' = [handlers EXCEPT ![h] = IdleHandler]
     /\ UNCHANGED <<lsVars, sessionItem, registrationItem, appVars, envVars,
                    posted, created, flushes, tasks, nextId>>

\* ---- flushQueue ---------------------------------------------------------
FreeFlush ==
  CHOOSE f \in FlushIds :
    /\ flushes[f].pc = "idle"
    /\ \A g \in FlushIds : g < f => flushes[g].pc # "idle"

BatchRecords(chunk) == {PostRecord(chunk[k]) : k \in 1..Len(chunk)}

\* The interval set by init fires: flushQueue calls NetInfo.fetch.
FlushTick ==
  /\ activeTimers > 0
  /\ \E f \in FlushIds : flushes[f].pc = "idle"
  /\ flushes' = [flushes EXCEPT ![FreeFlush] = [IdleFlush EXCEPT !.pc = "net"]]
  /\ UNCHANGED <<lsVars, storeVars, appVars, envVars, histVars, handlers,
                 tasks, nextId>>

\* NetInfo.fetch resolves not connected: the run ends.
FlushOffline(f) ==
  /\ flushes[f].pc = "net"
  /\ ~connected
  /\ flushes' = [flushes EXCEPT ![f] = IdleFlush]
  /\ UNCHANGED <<lsVars, storeVars, appVars, envVars, histVars, handlers,
                 tasks, nextId>>

\* NetInfo.fetch resolves connected: getItem reads the queue.
FlushRead(f) ==
  /\ flushes[f].pc = "net"
  /\ connected
  /\ flushes' = [flushes EXCEPT ![f].pc = "get", ![f].raw = offlineQueue]
  /\ UNCHANGED <<lsVars, storeVars, appVars, envVars, histVars, handlers,
                 tasks, nextId>>

\* faulty variant: no guard on the identifiers
FlushIgnoresBinding(raw) == ~raw.has \/ Len(ParseQueue(raw)) = 0

\* the early returns after getItem: no item, an empty array, no identifiers
FlushReturnsEarly(raw) ==
  ~raw.has \/ Len(ParseQueue(raw)) = 0 \/ ~Bound

\* After getItem: the three early returns, or the first batch POST.
FlushBegin(f) ==
  LET raw == flushes[f].raw
      queue == ParseQueue(raw)
      chunk == Chunk(queue, 0)
  IN /\ flushes[f].pc = "get"
     /\ IF FlushReturnsEarly(raw)
        THEN /\ flushes' = [flushes EXCEPT ![f] = IdleFlush]
             /\ UNCHANGED posted
        ELSE /\ flushes' = [flushes EXCEPT ![f].pc = "post", ![f].i = 0,
                              ![f].sent = 0, ![f].batches = <<chunk>>]
             /\ posted' = posted \cup BatchRecords(chunk)
     /\ UNCHANGED <<lsVars, storeVars, appVars, envVars, created, released,
                    enqueuedUnbound, handlers, tasks, nextId>>

\* A batch POST is answered (ok) or fails (non-2xx, network error, 15 s
\* abort): the next batch is POSTed, or the loop ends and setItem writes
\* queue.slice(sent).
FlushBatchDone(f, ok) ==
  LET fl == flushes[f]
      queue == ParseQueue(fl.raw)
      chunk == Chunk(queue, fl.i)
      sent == SentAfter(ok, fl.sent, chunk)
      next == Chunk(queue, fl.i + CHUNK_SIZE)
  IN /\ fl.pc = "post"
     /\ ok \/ ~stable
     /\ released' = IF ok THEN released \cup Range(chunk) ELSE released
     /\ IF LoopContinues(ok, fl.i, queue)
        THEN /\ flushes' = [flushes EXCEPT ![f].i = fl.i + CHUNK_SIZE,
                              ![f].sent = sent,
                              ![f].batches = Append(@, next),
                              ![f].failedAt =
                                 IF ok \/ @ # 0 THEN @ ELSE Len(fl.batches)]
             /\ posted' = posted \cup BatchRecords(next)
             /\ UNCHANGED offlineQueue
        ELSE /\ flushes' = [flushes EXCEPT ![f].pc = "set", ![f].sent = sent,
                              ![f].failedAt =
                                 IF ok \/ @ # 0 THEN @ ELSE Len(fl.batches)]
             /\ offlineQueue' = Item(Remaining(queue, sent))
             /\ UNCHANGED posted
     /\ UNCHANGED <<lsVars, sessionItem, registrationItem, appVars, envVars,
                    created, enqueuedUnbound, handlers, tasks, nextId>>

\* After setItem: if nothing remained, clearQueue is called (not awaited) and
\* issues removeItem.
FlushEnd(f) ==
  LET fl == flushes[f]
      remaining == Remaining(ParseQueue(fl.raw), fl.sent)
  IN /\ fl.pc = "set"
     /\ flushes' = [flushes EXCEPT ![f] = IdleFlush]
     /\ IF Len(remaining) = 0
        THEN /\ offlineQueue' = NoItem
             /\ released' = released \cup Range(ParseQueue(offlineQueue))
        ELSE UNCHANGED <<offlineQueue, released>>
     /\ UNCHANGED <<lsVars, sessionItem, registrationItem, appVars, envVars,
                    posted, created, enqueuedUnbound, handlers, tasks, nextId>>

\* ---- LocationService.init, startTracking, stopTracking, clearQueue ------
\* faulty variant: the previous interval is not cleared
TimersLeak(handle, timers) == timers + 1

\* if (this.syncInterval) clearInterval(this.syncInterval); setInterval(...)
TimersAfterInit(handle, timers) ==
  (IF handle THEN timers - 1 ELSE timers) + 1

\* init: bind the identifiers and (re)start the flush interval
InitService_init(tech, user) ==
  /\ technicianId' = tech
  /\ userId' = user
  /\ syncInterval' = TRUE
  /\ activeTimers' = TimersAfterInit(syncInterval, activeTimers)

\* stopTracking after its awaits: remove the foreground subscription, clear
\* the interval, clear the identifiers
StopTrackingTail ==
  /\ foregroundSubscription' = FALSE
  /\ liveWatchers' = IF foregroundSubscription THEN liveWatchers - 1
                     ELSE liveWatchers
  /\ syncInterval' = FALSE
  /\ activeTimers' = IF syncInterval THEN activeTimers - 1 ELSE activeTimers
  /\ isTracking' = FALSE
  /\ technicianId' = NULL
  /\ userId' = NULL

\* clearQueue: AsyncStorage.removeItem(OFFLINE_QUEUE_KEY)
ClearQueue ==
  /\ offlineQueue' = NoItem
  /\ released' = released \cup Range(ParseQueue(offlineQueue))

\* ---- App: effects -------------------------------------------------------
FreePoll(tk) ==
  CHOOSE t \in PollIds :
    /\ tk[t].pc = "idle"
    /\ \A g \in PollIds : g < t => tk[g].pc # "idle"

\* the slot of a waiting poll that ended in a rejected fetch or a response
\* that was not ok, as long as no poll has been issued since
FailedTask == [IdleTask EXCEPT !.kind = "failed"]

\* runPoll up to its await of fetch
StartPoll(tk, user, kind) ==
  [t \in TaskIds |->
     IF t = FreePoll(tk)
     THEN [pc |-> "fetch", kind |-> kind, user |-> user, technician |-> NULL]
     ELSE IF tk[t] = FailedTask THEN IdleTask ELSE tk[t]]

\* A variant of Render whose tracking effect has no cleanup.
RenderKeepsTracking(scr, reg, sess, tk) ==
  LET waitChanged == <<scr, reg>> # <<screen, registeredUser>>
      trackChanged == <<scr, sess>> # <<screen, activeSession>>
      startWaiting == waitChanged /\ scr = "waiting" /\ reg # NULL
  IN /\ screen' = scr
     /\ registeredUser' = reg
     /\ activeSession' = sess
     /\ pollIntervalRef' = IF waitChanged THEN startWaiting ELSE pollIntervalRef
     /\ trackingInterval' =
          IF trackChanged
          THEN trackingInterval \/ (scr = "tracking" /\ sess # NoSession)
          ELSE trackingInterval
     /\ IF startWaiting
        THEN /\ \E t \in PollIds : tk[t].pc = "idle"
             /\ tasks' = StartPoll(tk, reg, "waiting")
        ELSE tasks' = tk

\* A slice has set screen, registeredUser and activeSession: the render and
\* the two polling effects.  An effect whose dependencies changed runs its
\* cleanup and then its body: the waiting effect polls at once and sets the
\* interval (or calls stopPolling), the tracking effect sets its interval.
Render(scr, reg, sess, tk) ==
  LET waitChanged == <<scr, reg>> # <<screen, registeredUser>>
      trackChanged == <<scr, sess>> # <<screen, activeSession>>
      startWaiting == waitChanged /\ scr = "waiting" /\ reg # NULL
  IN /\ screen' = scr
     /\ registeredUser' = reg
     /\ activeSession' = sess
     /\ pollIntervalRef' = IF waitChanged THEN startWaiting ELSE pollIntervalRef
     /\ trackingInterval' =
          IF trackChanged THEN scr = "tracking" /\ sess # NoSession
          ELSE trackingInterval
     /\ IF startWaiting
        THEN /\ \E t \in PollIds : tk[t].pc = "idle"
             /\ tasks' = StartPoll(tk, reg, "waiting")
        ELSE tasks' = tk

Done(t) == [tasks EXCEPT ![t] = IdleTask]

\* ---- App: boot ----------------------------------------------------------
\* A variant of the resuming boot that clears the queue before init, as
\* runPoll does at a shift start.
BootSessionClearsQueue ==
  LET session == sessionItem
  IN /\ tasks[BootTask].pc = "boot"
     /\ session # NoSession
     /\ InitService_init(session.technician, session.user)
     /\ Render(screen, registeredUser, session,
               [tasks EXCEPT ![BootTask].pc = "perm",
                             ![BootTask].user = session.user,
                             ![BootTask].technician = session.technician])
     /\ foregroundCallback' = TRUE
     /\ ClearQueue
     /\ UNCHANGED <<isTracking, usingBackgroundTask, foregroundSubscription,
                    taskRegistered, liveWatchers, sessionItem,
                    registrationItem, pollError, lastLocation, envVars,
                    posted, created, enqueuedUnbound, handlers, flushes,
                    nextId>>

\* getItem(SESSION_KEY) gave a session: restore it, init, and startTracking
\* up to its permission requests.
BootSession ==
  LET session == sessionItem
  IN /\ tasks[BootTask].pc = "boot"
     /\ session # NoSession
     /\ InitService_init(session.technician, session.user)
     /\ Render(screen, registeredUser, session,
               [tasks EXCEPT ![BootTask].pc = "perm",
                             ![BootTask].user = session.user,
                             ![BootTask].technician = session.technician])
     /\ foregroundCallback' = TRUE
     /\ UNCHANGED <<isTracking, usingBackgroundTask, foregroundSubscription,
                    taskRegistered, liveWatchers, storeVars, pollError,
                    lastLocation, envVars, histVars, handlers, flushes,
                    nextId>>

\* No session: ask the server whether the device is registered.
BootNoSession ==
  /\ tasks[BootTask].pc = "boot"
  /\ sessionItem = NoSession
  /\ tasks' = [tasks EXCEPT ![BootTask].pc = "check"]
  /\ UNCHANGED <<lsVars, storeVars, appVars, envVars, histVars, handlers,
                 flushes, nextId>>

\* The server knows the device: store the user it returns.
BootCheckOk(user) ==
  /\ tasks[BootTask].pc = "check"
  /\ registrationItem' = user
  /\ tasks' = [tasks EXCEPT ![BootTask].pc = "store", ![BootTask].user = user]
  /\ UNCHANGED <<lsVars, offlineQueue, sessionItem, appVars, envVars,
                 histVars, handlers, flushes, nextId>>

BootStored ==
  /\ tasks[BootTask].pc = "store"
  /\ Render("waiting", tasks[BootTask].user, activeSession, Done(BootTask))
  /\ UNCHANGED <<lsVars, storeVars, pollError, lastLocation, envVars,
                 histVars, handlers, flushes, nextId>>

\* The check fails (404, network): getItem(REGISTRATION_KEY).
BootCheckFails ==
  /\ tasks[BootTask].pc = "check"
  /\ tasks' = [tasks EXCEPT ![BootTask].pc = "reg",
                            ![BootTask].user = registrationItem]
  /\ UNCHANGED <<lsVars, storeVars, appVars, envVars, histVars, handlers,
                 flushes, nextId>>

BootLocal ==
  LET user == tasks[BootTask].user
  IN /\ tasks[BootTask].pc = "reg"
     /\ IF user # NULL
        THEN Render("waiting", user, activeSession, Done(BootTask))
        ELSE Render("register", registeredUser, activeSession, Done(BootTask))
     /\ UNCHANGED <<lsVars, storeVars, pollError, lastLocation, envVars,
                    histVars, handlers, flushes, nextId>>

\* ---- startTracking, inside boot or runPoll ------------------------------
\* startTracking throws to boot or runPoll: the caller's catch runs (boot:
\* setScreen('register'); runPoll: setPollError(true)).
CallerCatches(t) ==
  /\ IF t = BootTask
     THEN /\ Render("register", registeredUser, activeSession, Done(t))
          /\ UNCHANGED pollError
     ELSE /\ pollError' = TRUE
          /\ tasks' = Done(t)
          /\ UNCHANGED <<screen, registeredUser, activeSession,
                         pollIntervalRef, trackingInterval>>
  /\ UNCHANGED <<lsVars, storeVars, lastLocation, envVars, histVars,
                 handlers, flushes, nextId>>

\* requestPermissions throws (foreground or background permission refused).
StartTrackingThrows(t) ==
  /\ tasks[t].pc = "perm"
  /\ CallerCatches(t)

\* Permissions granted, the background start unavailable or failed, and the
\* fallback watchPositionAsync is going to reject (no watcher is registered).
WatchUnavailable(t) ==
  /\ tasks[t].pc = "perm"
  /\ tasks' = [tasks EXCEPT ![t].pc = "nowatch"]
  /\ UNCHANGED <<lsVars, storeVars, appVars, envVars, histVars, handlers,
                 flushes, nextId>>

\* watchPositionAsync rejects inside the catch block of startTracking, which
\* has no handler of its own: startTracking throws.
WatchRejects(t) ==
  /\ tasks[t].pc = "nowatch"
  /\ CallerCatches(t)

\* Permissions granted and TaskManager available: startLocationUpdatesAsync
\* registers the background task.
StartBackground(t) ==
  /\ tasks[t].pc = "perm"
  /\ taskRegistered' = TRUE
  /\ tasks' = [tasks EXCEPT ![t].pc = "bg"]
  /\ UNCHANGED <<technicianId, userId, isTracking, usingBackgroundTask,
                 syncInterval, foregroundSubscription, foregroundCallback,
                 liveWatchers, activeTimers, storeVars, appVars, envVars,
                 histVars, handlers, flushes, nextId>>

\* TaskManager unavailable or startLocationUpdatesAsync rejects: the catch
\* falls back to watchPositionAsync.
StartForeground(t) ==
  /\ tasks[t].pc = "perm"
  /\ liveWatchers < MaxWatchers
  /\ liveWatchers' = liveWatchers + 1
  /\ tasks' = [tasks EXCEPT ![t].pc = "watch"]
  /\ UNCHANGED <<technicianId, userId, isTracking, usingBackgroundTask,
                 syncInterval, foregroundSubscription, foregroundCallback,
                 taskRegistered, activeTimers, storeVars, appVars, envVars,
                 histVars, handlers, flushes, nextId>>

\* startTracking after startLocationUpdatesAsync or watchPositionAsync: the
\* subscription is stored (foreground) and the two flags are set
StartTrackingTail(t) ==
  /\ tasks[t].pc \in {"bg", "watch"}
  /\ isTracking' = TRUE
  /\ usingBackgroundTask' = (tasks[t].pc = "bg")
  /\ foregroundSubscription' =
       IF tasks[t].pc = "watch" THEN TRUE ELSE foregroundSubscription

\* startTracking returns.  boot goes on to setScreen('tracking'); runPoll
\* goes on to setItem(SESSION_KEY).
Started(t) ==
  /\ StartTrackingTail(t)
  /\ IF t = BootTask
     THEN /\ Render("tracking", registeredUser, activeSession, Done(t))
          /\ UNCHANGED sessionItem
     ELSE /\ sessionItem' = [user |-> tasks[t].user,
                             technician |-> tasks[t].technician]
          /\ tasks' = [tasks EXCEPT ![t].pc = "persist"]
          /\ UNCHANGED <<screen, registeredUser, activeSession,
                         pollIntervalRef, trackingInterval>>
  /\ UNCHANGED <<technicianId, userId, syncInterval, foregroundCallback,
                 taskRegistered, liveWatchers, activeTimers, offlineQueue,
                 registrationItem, pollError, lastLocation, envVars,
                 histVars, handlers, flushes, nextId>>

\* ---- App: runPoll -------------------------------------------------------
\* the waiting interval fires with no poll in flight: runPoll(user)
WaitingPollTick ==
  /\ pollIntervalRef
  /\ \A t \in PollIds : tasks[t].pc = "idle"
  /\ tasks' = StartPoll(tasks, registeredUser, "waiting")
  /\ UNCHANGED <<lsVars, storeVars, appVars, envVars, histVars, handlers,
                 flushes, nextId>>

\* the tracking interval fires with no poll in flight:
\* runPoll(activeSession.user, true)
TrackingPollTick ==
  /\ trackingInterval
  /\ \A t \in PollIds : tasks[t].pc = "idle"
  /\ tasks' = StartPoll(tasks, activeSession.user, "tracking")
  /\ UNCHANGED <<lsVars, storeVars, appVars, envVars, histVars, handlers,
                 flushes, nextId>>

\* The waiting interval fires while an earlier poll is still in flight (its
\* fetch has no timeout and has been pending for a whole period).
WaitingPollOverlaps ==
  /\ pollIntervalRef
  /\ \E t \in PollIds : tasks[t].pc # "idle"
  /\ \E t \in PollIds : tasks[t].pc = "idle"
  /\ tasks' = StartPoll(tasks, registeredUser, "waiting")
  /\ UNCHANGED <<lsVars, storeVars, appVars, envVars, histVars, handlers,
                 flushes, nextId>>

\* The tracking interval fires while an earlier poll is still in flight.
TrackingPollOverlaps ==
  /\ trackingInterval
  /\ \E t \in PollIds : tasks[t].pc # "idle"
  /\ \E t \in PollIds : tasks[t].pc = "idle"
  /\ tasks' = StartPoll(tasks, activeSession.user, "tracking")
  /\ UNCHANGED <<lsVars, storeVars, appVars, envVars, histVars, handlers,
                 flushes, nextId>>

\* faulty variants: the flag, once set, is never cleared; the flag is
\* written by tracking polls too
PollErrorSticky(kind, ok, flag) == IF kind = "waiting" THEN flag \/ ~ok ELSE flag

PollErrorAlways(kind, ok, flag) == ~ok

\* pollError after a response or a rejection: a waiting poll calls
\* setPollError(!res.ok), or setPollError(true) in the catch; a tracking poll
\* leaves the flag alone.
PollErrorAfter(kind, ok, flag) == IF kind = "waiting" THEN ~ok ELSE flag

\* fetch rejects or the response is not ok: a waiting poll sets pollError.
PollFails(t) ==
  /\ tasks[t].pc = "fetch"
  /\ pollError' = PollErrorAfter(tasks[t].kind, FALSE, pollError)
  /\ tasks' = IF tasks[t].kind = "waiting"
              THEN [tasks EXCEPT ![t] = FailedTask]
              ELSE Done(t)
  /\ UNCHANGED <<lsVars, storeVars, screen, registeredUser, activeSession,
                 pollIntervalRef, trackingInterval, lastLocation, envVars,
                 histVars, handlers, flushes, nextId>>

\* The response asks for no transition: a tracking poll with onShift, a
\* waiting poll without onShift or without a technician.
PollNoChange(t) ==
  /\ tasks[t].pc = "fetch"
  /\ \/ tasks[t].kind = "tracking" /\ serverShift # NULL
     \/ tasks[t].kind = "waiting" /\ serverShift = NULL
  /\ pollError' = PollErrorAfter(tasks[t].kind, TRUE, pollError)
  /\ tasks' = Done(t)
  /\ UNCHANGED <<lsVars, storeVars, screen, registeredUser, activeSession,
                 pollIntervalRef, trackingInterval, lastLocation, envVars,
                 histVars, handlers, flushes, nextId>>

\* A waiting poll sees a shift with a technician: stopPolling and clearQueue.
PollShiftStart(t) ==
  /\ tasks[t].pc = "fetch"
  /\ tasks[t].kind = "waiting"
  /\ serverShift # NULL
  /\ pollError' = PollErrorAfter("waiting", TRUE, pollError)
  /\ pollIntervalRef' = FALSE
  /\ ClearQueue
  /\ tasks' = [tasks EXCEPT ![t].pc = "cq", ![t].technician = serverShift]
  /\ UNCHANGED <<lsVars, sessionItem, registrationItem, screen, registeredUser,
                 activeSession, trackingInterval, lastLocation, envVars,
                 posted, created, enqueuedUnbound, handlers, flushes, nextId>>

\* After clearQueue: init, and startTracking up to its permission requests.
PollInit(t) ==
  /\ tasks[t].pc = "cq"
  /\ InitService_init(tasks[t].technician, tasks[t].user)
  /\ foregroundCallback' = TRUE
  /\ tasks' = [tasks EXCEPT ![t].pc = "perm"]
  /\ UNCHANGED <<isTracking, usingBackgroundTask, foregroundSubscription,
                 taskRegistered, liveWatchers, storeVars, appVars, envVars,
                 histVars, handlers, flushes, nextId>>

\* After setItem(SESSION_KEY): setActiveSession, setScreen('tracking').
PollPersisted(t) ==
  /\ tasks[t].pc = "persist"
  /\ Render("tracking", registeredUser,
            [user |-> tasks[t].user, technician |-> tasks[t].technician],
            Done(t))
  /\ UNCHANGED <<lsVars, storeVars, pollError, lastLocation, envVars,
                 histVars, handlers, flushes, nextId>>

\* ---- App: doStopTracking ------------------------------------------------
\* A tracking poll sees onShift false: doStopTracking calls stopTracking,
\* which asks whether the background task is registered.
PollShiftEnd(t) ==
  /\ tasks[t].pc = "fetch"
  /\ tasks[t].kind = "tracking"
  /\ serverShift = NULL
  /\ tasks' = [tasks EXCEPT ![t].pc = "st_check"]
  /\ UNCHANGED <<lsVars, storeVars, appVars, envVars, histVars, handlers,
                 flushes, nextId>>

\* The task is registered: stopLocationUpdatesAsync.
StopBackground(t) ==
  /\ tasks[t].pc = "st_check"
  /\ taskRegistered
  /\ taskRegistered' = FALSE
  /\ tasks' = [tasks EXCEPT ![t].pc = "st_stop"]
  /\ UNCHANGED <<technicianId, userId, isTracking, usingBackgroundTask,
                 syncInterval, foregroundSubscription, foregroundCallback,
                 liveWatchers, activeTimers, storeVars, appVars, envVars,
                 histVars, handlers, flushes, nextId>>

\* stopTracking returns (the task was not registered, the check threw, or
\* stopLocationUpdatesAsync is done) and doStopTracking calls clearQueue.
StopTracking(t) ==
  /\ \/ tasks[t].pc = "st_check" /\ ~taskRegistered
     \/ tasks[t].pc = "st_stop"
  /\ StopTrackingTail
  /\ ClearQueue
  /\ tasks' = [tasks EXCEPT ![t].pc = "dq"]
  /\ UNCHANGED <<usingBackgroundTask, foregroundCallback, taskRegistered,
                 sessionItem, registrationItem, appVars, envVars, posted,
                 created, enqueuedUnbound, handlers, flushes, nextId>>

\* After clearQueue: removeItem(SESSION_KEY).
StopRemoveSession(t) ==
  /\ tasks[t].pc = "dq"
  /\ sessionItem' = NoSession
  /\ tasks' = [tasks EXCEPT ![t].pc = "rs"]
  /\ UNCHANGED <<lsVars, offlineQueue, registrationItem, appVars, envVars,
                 histVars, handlers, flushes, nextId>>

\* setActiveSession(null), setRegisteredUser(user), setScreen('waiting').
StopDone(t) ==
  /\ tasks[t].pc = "rs"
  /\ Render("waiting", tasks[t].user, NoSession, Done(t))
  /\ lastLocation' = NULL
  /\ UNCHANGED <<lsVars, storeVars, pollError, envVars, histVars,
                 handlers, flushes, nextId>>

\* ---- environment --------------------------------------------------------
\* The administrator starts a shift with a technician, or ends the shift.
ServerShiftChange(tech) ==
  /\ shiftChanges < MaxShiftChanges
  /\ (serverShift = NULL) # (tech = NULL)
  /\ serverShift' = tech
  /\ shiftChanges' = shiftChanges + 1
  /\ UNCHANGED <<lsVars, storeVars, appVars, connected, stable, histVars,
                 handlers, flushes, tasks, nextId>>

ConnectivityChange ==
  /\ ~stable
  /\ connected' = ~connected
  /\ UNCHANGED <<lsVars, storeVars, appVars, stable, serverShift,
                 shiftChanges, histVars, handlers, flushes, tasks, nextId>>

\* Connectivity is back for good and the collector answers every POST 2xx.
Stabilize ==
  /\ ~stable
  /\ stable' = TRUE
  /\ connected' = TRUE
  /\ UNCHANGED <<lsVars, storeVars, appVars, serverShift, shiftChanges,
                 histVars, handlers, flushes, tasks, nextId>>

\* ---- the App with the service, from process start -----------------------
InitFrom(stores) ==
  /\ InitService
  /\ InitHistory
  /\ \E st \in stores :
       /\ offlineQueue = st[1]
       /\ sessionItem = st[2]
       /\ registrationItem = st[3]
  /\ tasks = [t \in TaskIds |->
                IF t = BootTask THEN [IdleTask EXCEPT !.pc = "boot", !.kind = "boot"]
                ELSE IdleTask]
  /\ screen = "loading"
  /\ registeredUser = NULL
  /\ activeSession = NoSession
  /\ pollError = FALSE
  /\ pollIntervalRef = FALSE
  /\ trackingInterval = FALSE
  /\ lastLocation = NULL
  /\ connected \in BOOLEAN
  /\ stable = FALSE
  /\ serverShift = sessionItem.technician
  /\ shiftChanges = 0
  /\ nextId = QueueCapacity + 1

Init == InitFrom(InitStores)

HandlerSteps ==
  \/ \E h \in HandlerIds : HandlerOnline(h)
  \/ \E h \in HandlerIds : HandlerOffline(h)
  \/ \E h \in HandlerIds : HandlerNetError(h)
  \/ \E h \in HandlerIds : HandlerPostOk(h)
  \/ \E h \in HandlerIds : HandlerPostFails(h)
  \/ \E h \in HandlerIds : HandlerEnqueue(h)

FlushSteps ==
  \/ \E f \in FlushIds : FlushOffline(f)
  \/ \E f \in FlushIds : FlushRead(f)
  \/ \E f \in FlushIds : FlushBegin(f)
  \/ \E f \in FlushIds, ok \in BOOLEAN : FlushBatchDone(f, ok)
  \/ \E f \in FlushIds : FlushEnd(f)

ServiceNext ==
  \/ \E a \in AccuracyValues : SampleArrives(a)
  \/ HandlerSteps
  \/ FlushTick
  \/ FlushSteps
  \/ ConnectivityChange

AppNext ==
  \/ BootSession
  \/ BootNoSession
  \/ \E u \in Users : BootCheckOk(u)
  \/ BootStored
  \/ BootCheckFails
  \/ BootLocal
  \/ \E t \in TaskIds : StartTrackingThrows(t)
  \/ \E t \in TaskIds : WatchUnavailable(t)
  \/ \E t \in TaskIds : WatchRejects(t)
  \/ \E t \in TaskIds : StartBackground(t)
  \/ \E t \in TaskIds : StartForeground(t)
  \/ \E t \in TaskIds : Started(t)
  \/ WaitingPollTick
  \/ TrackingPollTick
  \/ \E t \in PollIds : PollFails(t)
  \/ \E t \in PollIds : PollNoChange(t)
  \/ \E t \in PollIds : PollShiftStart(t)
  \/ \E t \in PollIds : PollInit(t)
  \/ \E t \in PollIds : PollPersisted(t)
  \/ \E t \in PollIds : PollShiftEnd(t)
  \/ \E t \in PollIds : StopBackground(t)
  \/ \E t \in PollIds : StopTracking(t)
  \/ \E t \in PollIds : StopRemoveSession(t)
  \/ \E t \in PollIds : StopDone(t)
  \/ \E s \in Technicians \cup {NULL} : ServerShiftChange(s)

\* The service in a shift: the state boot reaches when it resumes a
\* persisted session (BootSession, StartBackground or StartForeground,
\* Started), with the queue that session had left.  While the server keeps
\* the shift on, the tracking polls change nothing (PollNoChange).
InitTracking ==
  /\ InitHistory
  /\ technicianId = "T1"
  /\ userId = "U1"
  /\ isTracking = TRUE
  /\ syncInterval = TRUE
  /\ activeTimers = 1
  /\ foregroundCallback = TRUE
  /\ \E bg \in BOOLEAN :
       /\ usingBackgroundTask = bg
       /\ taskRegistered = bg
       /\ foregroundSubscription = ~bg
       /\ liveWatchers = IF bg THEN 0 ELSE 1
  /\ handlers = [h \in HandlerIds |-> IdleHandler]
  /\ flushes = [f \in FlushIds |-> IdleFlush]
  /\ tasks = [t \in TaskIds |-> IdleTask]
  /\ offlineQueue \in {NoItem, Item(OldQueue(QueueCapacity - 1)),
                       Item(OldQueue(QueueCapacity))}
  /\ sessionItem = [user |-> "U1", technician |-> "T1"]
  /\ registrationItem = "U1"
  /\ screen = "tracking"
  /\ registeredUser = NULL
  /\ activeSession = sessionItem
  /\ pollError = FALSE
  /\ pollIntervalRef = FALSE
  /\ trackingInterval = TRUE
  /\ lastLocation = NULL
  /\ connected \in BOOLEAN
  /\ stable = FALSE
  /\ serverShift = "T1"
  /\ shiftChanges = 0
  /\ nextId = QueueCapacity + 1

Spec == InitTracking /\ [][ServiceNext]_vars

\* The handlers alone: a stretch of a shift between two ticks of the flush
\* interval.
HandlerNext ==
  \/ \E a \in AccuracyValues : SampleArrives(a)
  \/ HandlerSteps
  \/ ConnectivityChange

HandlerSpec == InitTracking /\ [][HandlerNext]_vars

\* the acquisition layer delivers AppMaxSamples samples
FewSamples ==
  /\ nextId <= QueueCapacity + AppMaxSamples
  /\ \E a \in AccuracyValues : SampleArrives(a)

\* the flush interval fires with no flush run in progress
FlushTickAlone ==
  /\ \A f \in FlushIds : flushes[f].pc = "idle"
  /\ FlushTick

\* The service with one flush run at a time and AppMaxSamples samples.
BoundedServiceNext ==
  \/ FewSamples
  \/ HandlerSteps
  \/ FlushTickAlone
  \/ FlushSteps
  \/ ConnectivityChange

\* The App and the service from process start.
AppSpec == Init /\ [][AppNext \/ BoundedServiceNext]_vars

\* ---- the controller driven through its interface -------------------------
\* A caller other than the App: it calls init, startTracking and
\* stopTracking in any order, up to one call per task slot at a time, and
\* awaits each.
ApiInit(t, tech, user) ==
  /\ tasks[t].pc = "idle"
  /\ InitService_init(tech, user)
  /\ tasks' = [tasks EXCEPT ![t] =
       [pc |-> "inited", kind |-> "api", user |-> user, technician |-> tech]]
  /\ UNCHANGED <<isTracking, usingBackgroundTask, foregroundSubscription,
                 foregroundCallback, taskRegistered, liveWatchers, storeVars,
                 appVars, envVars, histVars, handlers, flushes, nextId>>

\* startTracking(callback) up to its permission requests
ApiStart(t) ==
  /\ tasks[t].pc = "idle"
  /\ liveWatchers < MaxWatchers
  /\ foregroundCallback' = TRUE
  /\ tasks' = [tasks EXCEPT ![t] = [IdleTask EXCEPT !.pc = "perm", !.kind = "api"]]
  /\ UNCHANGED <<technicianId, userId, isTracking, usingBackgroundTask,
                 syncInterval, foregroundSubscription, taskRegistered,
                 liveWatchers, activeTimers, storeVars, appVars, envVars,
                 histVars, handlers, flushes, nextId>>

\* stopTracking up to isTaskRegisteredAsync
ApiStop(t) ==
  /\ tasks[t].pc = "idle"
  /\ tasks' = [tasks EXCEPT ![t] = [IdleTask EXCEPT !.pc = "st_check", !.kind = "api"]]
  /\ UNCHANGED <<lsVars, storeVars, appVars, envVars, histVars, handlers,
                 flushes, nextId>>

\* init has returned, or startTracking has thrown, to the caller
ApiReturns(t) ==
  /\ tasks[t].pc \in {"inited", "perm", "nowatch"}
  /\ tasks' = Done(t)
  /\ UNCHANGED <<lsVars, storeVars, appVars, envVars, histVars, handlers,
                 flushes, nextId>>

\* startTracking returns to the caller
ApiStarted(t) ==
  /\ StartTrackingTail(t)
  /\ tasks' = Done(t)
  /\ UNCHANGED <<technicianId, userId, syncInterval, foregroundCallback,
                 taskRegistered, liveWatchers, activeTimers, storeVars,
                 appVars, envVars, histVars, handlers, flushes, nextId>>

\* stopTracking returns to the caller
ApiStopped(t) ==
  /\ \/ tasks[t].pc = "st_check" /\ ~taskRegistered
     \/ tasks[t].pc = "st_stop"
  /\ StopTrackingTail
  /\ tasks' = Done(t)
  /\ UNCHANGED <<usingBackgroundTask, foregroundCallback, taskRegistered,
                 storeVars, appVars, envVars, histVars, handlers, flushes,
                 nextId>>

ControllerInit ==
  /\ InitService
  /\ InitHistory
  /\ offlineQueue \in {NoItem, Item(OldQueue(QueueCapacity - 1))}
  /\ sessionItem = NoSession
  /\ registrationItem = NULL
  /\ tasks = [t \in TaskIds |-> IdleTask]
  /\ screen = "loading"
  /\ registeredUser = NULL
  /\ activeSession = NoSession
  /\ pollError = FALSE
  /\ pollIntervalRef = FALSE
  /\ trackingInterval = FALSE
  /\ lastLocation = NULL
  /\ connected \in BOOLEAN
  /\ stable = FALSE
  /\ serverShift = NULL
  /\ shiftChanges = 0
  /\ nextId = QueueCapacity + 1

ControllerNext ==
  \/ \E t \in TaskIds, tech \in Technicians, user \in Users :
       ApiInit(t, tech, user)
  \/ \E t \in TaskIds : ApiStart(t)
  \/ \E t \in TaskIds : ApiStop(t)
  \/ \E t \in TaskIds : ApiReturns(t)
  \/ \E t \in TaskIds : StartBackground(t)
  \/ \E t \in TaskIds : StartForeground(t)
  \/ \E t \in TaskIds : WatchUnavailable(t)
  \/ \E t \in TaskIds : ApiStarted(t)
  \/ \E t \in TaskIds : StopBackground(t)
  \/ \E t \in TaskIds : ApiStopped(t)
  \/ FewSamples

ControllerSpec == ControllerInit /\ [][ControllerNext]_vars

\* The App from process start with polls that overlap, without sample
\* delivery and without registration.
OverlapSpec ==
  Init /\ [][AppNext \/ WaitingPollOverlaps \/ TrackingPollOverlaps]_vars

\* setInterval keeps calling runPoll every POLL_INTERVAL_MS while the waiting
\* interval is set.
OverlapLiveSpec ==
  OverlapSpec /\ WF_vars(WaitingPollTick \/ WaitingPollOverlaps)

\* ---- App: handleRegister and confirmUnregister ---------------------------
\* The Register button (disabled while registering): setRegistering(true)
\* and axios.post to /api/users/register.
HandleRegister ==
  /\ screen = "register"
  /\ tasks[BootTask].pc = "idle"
  /\ tasks' = [tasks EXCEPT ![BootTask] =
       [IdleTask EXCEPT !.pc = "rpost", !.kind = "register"]]
  /\ UNCHANGED <<lsVars, storeVars, appVars, envVars, histVars, handlers,
                 flushes, nextId>>

\* faulty variant: the user is not stored
RegisterOkUnstored(user) ==
  /\ tasks[BootTask].pc = "rpost"
  /\ tasks' = [tasks EXCEPT ![BootTask].pc = "rstore", ![BootTask].user = user]
  /\ UNCHANGED <<lsVars, storeVars, appVars, envVars, histVars, handlers,
                 flushes, nextId>>

\* The server answers success with the user: setItem(REGISTRATION_KEY).
RegisterOk(user) ==
  /\ tasks[BootTask].pc = "rpost"
  /\ registrationItem' = user
  /\ tasks' = [tasks EXCEPT ![BootTask].pc = "rstore", ![BootTask].user = user]
  /\ UNCHANGED <<lsVars, offlineQueue, sessionItem, appVars, envVars,
                 histVars, handlers, flushes, nextId>>

\* The request fails or the server answers success false: an alert, and
\* setRegistering(false).
RegisterFails ==
  /\ tasks[BootTask].pc = "rpost"
  /\ tasks' = Done(BootTask)
  /\ UNCHANGED <<lsVars, storeVars, appVars, envVars, histVars, handlers,
                 flushes, nextId>>

\* After setItem: setRegisteredUser(data), setScreen('waiting').
RegisterStored ==
  /\ tasks[BootTask].pc = "rstore"
  /\ Render("waiting", tasks[BootTask].user, activeSession, Done(BootTask))
  /\ UNCHANGED <<lsVars, storeVars, pollError, lastLocation, envVars,
                 histVars, handlers, flushes, nextId>>

\* A variant of the unregister handler that removes all three stored items.
ConfirmUnregisterClearsAll ==
  /\ screen = "waiting"
  /\ tasks[BootTask].pc = "idle"
  /\ pollIntervalRef' = FALSE
  /\ registrationItem' = NULL
  /\ offlineQueue' = NoItem
  /\ sessionItem' = NoSession
  /\ tasks' = [tasks EXCEPT ![BootTask] =
       [IdleTask EXCEPT !.pc = "unreg", !.kind = "unregister"]]
  /\ UNCHANGED <<lsVars, screen, registeredUser,
                 activeSession, pollError, trackingInterval, lastLocation,
                 envVars, histVars, handlers, flushes, nextId>>

\* Remove is pressed in the alert opened from the waiting screen:
\* stopPolling and removeItem(REGISTRATION_KEY).
ConfirmUnregister ==
  /\ screen = "waiting"
  /\ tasks[BootTask].pc = "idle"
  /\ pollIntervalRef' = FALSE
  /\ registrationItem' = NULL
  /\ tasks' = [tasks EXCEPT ![BootTask] =
       [IdleTask EXCEPT !.pc = "unreg", !.kind = "unregister"]]
  /\ UNCHANGED <<lsVars, offlineQueue, sessionItem, screen, registeredUser,
                 activeSession, pollError, trackingInterval, lastLocation,
                 envVars, histVars, handlers, flushes, nextId>>

\* After removeItem: setRegisteredUser(null), setScreen('register').
Unregistered ==
  /\ tasks[BootTask].pc = "unreg"
  /\ Render("register", NULL, activeSession, Done(BootTask))
  /\ UNCHANGED <<lsVars, storeVars, pollError, lastLocation, envVars,
                 histVars, handlers, flushes, nextId>>

\* What the slot of the App's handlers holds after a handler's promise has
\* rejected with nothing to catch it.
UncaughtTask == [IdleTask EXCEPT !.kind = "uncaught"]

\* Remove is pressed and removeItem(REGISTRATION_KEY) rejects: the onPress
\* handler has called stopPolling, has no try around the await, and its
\* promise rejects; the three setters after the await do not run.
UnregisterRemoveFails ==
  /\ screen = "waiting"
  /\ tasks[BootTask].pc = "idle"
  /\ pollIntervalRef' = FALSE
  /\ tasks' = [tasks EXCEPT ![BootTask] = UncaughtTask]
  /\ UNCHANGED <<lsVars, storeVars, screen, registeredUser, activeSession,
                 pollError, trackingInterval, lastLocation, envVars,
                 histVars, handlers, flushes, nextId>>

RegistrationNext ==
  \/ HandleRegister
  \/ \E u \in Users : RegisterOk(u)
  \/ RegisterFails
  \/ RegisterStored
  \/ ConfirmUnregister
  \/ Unregistered

\* The App's screens from process start: boot, the polls, registration and
\* unregistration, with the service started and stopped but no sample
\* delivered.
ScreenSpec == Init /\ [][AppNext \/ RegistrationNext]_vars

\* The App from process start with the failures of its calls: a poll that
\* fails, permissions refused, a watcher that cannot be registered, and a
\* removeItem that rejects in the unregister handler.
FailureSpec ==
  /\ Init
  /\ [][AppNext \/ ConfirmUnregister \/ Unregistered
          \/ UnregisterRemoveFails]_vars

\* What AsyncStorage can also hold at process start: a user record and a
\* queue that an enqueue wrote after the last shift had ended and its queue
\* had been cleared, and no session.
LeftoverStores ==
  InitStores \cup {<<Item(OldQueue(QueueCapacity - 1)), NoSession, "U1">>}

\* The writers of the three stored items other than enqueue: the App from
\* process start with its polls, clearQueue, the session written and
\* removed, the flush runs and the unregister handler.
StoreSpec ==
  /\ InitFrom(LeftoverStores)
  /\ [][AppNext \/ ConfirmUnregister \/ Unregistered \/ FlushTickAlone
          \/ FlushSteps]_vars

\* The service in a shift whose network recovers for good.  Every await
\* resolves (the network calls are bounded by the 8 s and 15 s aborts) and
\* the event loop runs every continuation that is ready; the interval set
\* by init keeps firing while it is not cleared.
HandlerProgress(h) ==
  HandlerOnline(h) \/ HandlerOffline(h) \/ HandlerNetError(h)
    \/ HandlerPostOk(h)
    \/ HandlerPostFails(h) \/ HandlerEnqueue(h)

FlushProgress(f) ==
  FlushOffline(f) \/ FlushRead(f) \/ FlushBegin(f)
    \/ (\E ok \in BOOLEAN : FlushBatchDone(f, ok)) \/ FlushEnd(f)

LiveNext ==
  \/ FewSamples
  \/ HandlerSteps
  \/ FlushTick
  \/ FlushSteps
  \/ ConnectivityChange
  \/ Stabilize

LiveSpec ==
  /\ InitTracking
  /\ [][LiveNext]_vars
  /\ WF_vars(FlushTick)
  /\ \A f \in FlushIds : WF_vars(FlushProgress(f))
  /\ \A h \in HandlerIds : WF_vars(HandlerProgress(h))

\* ---- claims -------------------------------------------------------------
Queue == ParseQueue(offlineQueue)
InProgress == {handlers[h].payload : h \in {g \in HandlerIds : handlers[g].pc # "idle"}}
FlushQueue(f) == ParseQueue(flushes[f].raw)
\* flush run f writes its remainder back in this step
FlushWrites(f) == flushes[f].pc = "post" /\ flushes'[f].pc = "set"
\* handler h completes its enqueue in this step
EnqueueWrites(h) == handlers[h].pc = "enq" /\ handlers'[h].pc = "idle"

\* C1: a ping appended to the persisted queue after a flush run has read
\* the queue and before that run writes its remainder back (a ping that is
\* in storage when the run writes and was not in the array the run read) is
\* still in the persisted queue after the write.
C1_AppendSurvivesFlush ==
  [][\A f \in FlushIds :
       FlushWrites(f) =>
         (Range(Queue) \ Range(FlushQueue(f))) \subseteq Range(Queue')]_vars

\* C2: every ping whose handling has completed has been accepted by the
\* collector, evicted by the capacity bound or removed by clearQueue, or is
\* in the persisted queue.
C2_NoSilentLoss ==
  \A p \in created \ InProgress : p \in released \/ p \in Range(Queue)

\* C3: no POST issued while identifiers are bound carries a ping tagged
\* with other identifiers (those of an earlier shift).
C3_NoStalePingUnderLaterShift ==
  \A r \in posted : r.bound[1] # NULL => r.carried = r.bound

\* C4: no POST is issued and no ping is enqueued while no identifiers are
\* bound, that is between the return of stopTracking and the next init.
C4_NothingAfterStop ==
  /\ \A r \in posted : r.bound[1] # NULL /\ r.bound[2] # NULL
  /\ enqueuedUnbound = {}

\* C5: the persisted queue never holds more than QueueCapacity entries.
C5_QueueBounded == Len(Queue) <= QueueCapacity

\* an enqueue on a full queue has evicted the oldest entry
C5_Witness ==
  /\ Len(Queue) = QueueCapacity
  /\ Queue[1] = OldPing(2)
  /\ Queue[QueueCapacity] \in created

\* C6: an enqueue that runs alone (storage still holds what the enqueue
\* read) on a queue of QueueCapacity entries q1..qMax leaves q2..qMax
\* followed by the new ping.
C6_EvictsOldest ==
  [][\A h \in HandlerIds :
       (/\ EnqueueWrites(h)
        /\ handlers[h].raw = offlineQueue
        /\ Len(Queue) = QueueCapacity)
       => offlineQueue' = Item(Append(Tail(Queue), handlers[h].payload))]_vars

C6_Witness ==
  offlineQueue = Item(Append(Tail(OldQueue(QueueCapacity)),
                             Payload("T1", "U1", QueueCapacity + 1)))

\* C7: when no POST was ever issued (every handler found no connectivity)
\* and nothing was evicted or cleared, then once all handlers have completed
\* the persisted queue holds every ping built, in capture order.
C7_QueuedInCaptureOrder ==
  (/\ posted = {}
   /\ released = {}
   /\ ~connected
   /\ \A h \in HandlerIds : handlers[h].pc = "idle")
  => /\ created \subseteq Range(Queue)
     /\ \A i, j \in 1..Len(Queue) : i < j => Queue[i].id < Queue[j].id

\* C8: a flush run whose first k batches were accepted and whose batch k+1
\* failed, with storage still holding what the run read, writes back exactly
\* the entries from position CHUNK_SIZE*k+1 to n, in their order.
C8_RemovesConfirmedPrefix ==
  [][\A f \in FlushIds :
       (/\ FlushWrites(f)
        /\ flushes'[f].failedAt # 0
        /\ offlineQueue = flushes[f].raw)
       => offlineQueue' =
            Item(SubSeq(FlushQueue(f),
                        CHUNK_SIZE * (flushes'[f].failedAt - 1) + 1,
                        Len(FlushQueue(f))))]_vars

\* the first batch was accepted, the second failed, the rest is stored
C8_Witness ==
  \E f \in FlushIds :
    /\ flushes[f].pc = "set"
    /\ flushes[f].failedAt = 2
    /\ Len(FlushQueue(f)) > CHUNK_SIZE
    /\ Queue = SubSeq(FlushQueue(f), CHUNK_SIZE + 1, Len(FlushQueue(f)))

\* C9: in a flush run the n-th batch POSTed is the n-th run of at most
\* CHUNK_SIZE consecutive entries of the queue the run read, and the batch
\* that failed is the last one POSTed.
C9_BatchesInOrder ==
  \A f \in FlushIds :
    LET q == FlushQueue(f)
        b == flushes[f].batches
    IN /\ \A n \in 1..Len(b) :
            /\ b[n] # <<>>
            /\ b[n] = SubSeq(q, CHUNK_SIZE * (n - 1) + 1,
                             Min(CHUNK_SIZE * n, Len(q)))
       /\ flushes[f].failedAt # 0 => Len(b) = flushes[f].failedAt

\* a run whose first batch failed with more of the queue behind it
C9_Witness ==
  \E f \in FlushIds :
    /\ flushes[f].pc = "set"
    /\ flushes[f].failedAt = 1
    /\ Len(FlushQueue(f)) > CHUNK_SIZE

RECURSIVE Flatten(_)
Flatten(ss) == IF ss = <<>> THEN <<>> ELSE Head(ss) \o Flatten(Tail(ss))

\* C10: once connectivity is back for good and the collector accepts every
\* batch, the persisted queue eventually becomes and stays empty; and a flush
\* run none of whose batches failed has POSTed, when it writes back, every
\* entry of the queue it read, in queue order, and the collector has them.
C10_QueueDrains ==
  /\ stable ~> [](Queue = <<>>)
  /\ [](\A f \in FlushIds :
          (flushes[f].pc = "set" /\ flushes[f].failedAt = 0)
          => /\ Flatten(flushes[f].batches) = FlushQueue(f)
             /\ Range(FlushQueue(f)) \subseteq released)

\* the network has recovered with pings queued, and the queue is now empty
\* with those pings accepted
C10_Witness ==
  /\ stable
  /\ ~offlineQueue.has
  /\ OldPing(QueueCapacity) \in released
  /\ \A f \in FlushIds : flushes[f].pc = "idle"

\* C11: a flush run whose connectivity check finds no connectivity, or whose
\* guard finds no identifiers bound, ends there: it issues no batch POST and
\* leaves the persisted queue as it is.
C11_FlushBailsOut ==
  [][\A f \in FlushIds :
       ((\/ flushes[f].pc = "net" /\ ~connected
         \/ flushes[f].pc = "get" /\ ~Bound)
        /\ flushes'[f] # flushes[f])
       => /\ flushes'[f] = IdleFlush
          /\ posted' = posted
          /\ offlineQueue' = offlineQueue]_vars

\* a run that has read a queue of pings is at its guard with the identifiers
\* cleared by stopTracking
C11_Witness ==
  \E f \in FlushIds :
    /\ flushes[f].pc = "get"
    /\ Len(FlushQueue(f)) > 0
    /\ connected
    /\ ~Bound

Occurrences(q, p) == Cardinality({i \in 1..Len(q) : q[i] = p})

\* C12: a handler whose POST is answered 2xx ends without writing the queue;
\* a handler whose delivery fails (no connectivity, an error of the
\* connectivity check, a failed POST) goes on to enqueue without another
\* POST, and its enqueue writes a queue that ends with the ping and holds it
\* once.
C12_EnqueueOnceOnFailure ==
  [][\A h \in HandlerIds :
       LET p == handlers[h].payload
           moved == handlers'[h] # handlers[h]
       IN /\ (handlers[h].pc = "net" /\ moved)
             => \/ connected /\ handlers'[h].pc = "post"
                             /\ offlineQueue' = offlineQueue
                \/ handlers'[h].pc = "enq" /\ posted' = posted
                                           /\ offlineQueue' = offlineQueue
          /\ (handlers[h].pc = "post" /\ moved)
             => \/ handlers'[h] = IdleHandler /\ p \in released'
                                              /\ offlineQueue' = offlineQueue
                \/ handlers'[h].pc = "enq" /\ posted' = posted
                                           /\ offlineQueue' = offlineQueue
          /\ (handlers[h].pc = "enq" /\ moved)
             => /\ handlers'[h] = IdleHandler
                /\ posted' = posted
                /\ Queue' # <<>>
                /\ Queue'[Len(Queue')] = p
                /\ Occurrences(Queue', p) = 1]_vars

\* the one sample of the run was POSTed, the POST failed, and the ping is
\* now the last entry of the queue
C12_Witness ==
  \E p \in created :
    /\ created = {p}
    /\ posted # {}
    /\ released = {}
    /\ Queue = Append(OldQueue(QueueCapacity - 1), p)
    /\ \A h \in HandlerIds : handlers[h].pc = "idle"

\* C13: the filter rejects a reading exactly when it is present and greater
\* than 150; 150, anything smaller and a missing reading are accepted, and
\* with identifiers bound the handler builds a ping exactly for those.
C13_FilterThreshold ==
  /\ ~AccuracyRejected(<<>>)
  /\ \A m \in 0..MaxAccuracy : AccuracyRejected(<<m>>) <=> m > 150
  /\ HandleSync(Bound, foregroundCallback, <<>>).builds <=> Bound
  /\ \A m \in 0..MaxAccuracy :
       HandleSync(Bound, foregroundCallback, <<m>>).builds
         <=> (Bound /\ m <= 150)

\* a sample has passed the filter: its ping is built and its handler is at
\* the connectivity check
C13_Witness ==
  \E h \in HandlerIds :
    /\ handlers[h].pc = "net"
    /\ handlers[h].payload \in created
    /\ lastLocation = Shown

\* C14: with identifiers bound and a callback set, the callback is called
\* once for a rejected and once for an accepted sample; a rejected sample
\* builds no ping; the step that builds a ping shows the sample and issues no
\* POST and no write yet; a step that shows a sample and builds no ping
\* starts no handler, issues no POST and writes nothing.
C14_CallbackOnce ==
  /\ [](\A a \in AccuracyValues :
          /\ HandleSync(TRUE, TRUE, a).callbacks = 1
          /\ AccuracyRejected(a) => ~HandleSync(TRUE, TRUE, a).builds)
  /\ [][created' # created
          => /\ foregroundCallback => lastLocation' = Shown
             /\ posted' = posted
             /\ offlineQueue' = offlineQueue]_vars
  /\ [][(lastLocation' # lastLocation /\ lastLocation' = Shown
           /\ created' = created)
          => /\ handlers' = handlers
             /\ posted' = posted
             /\ offlineQueue' = offlineQueue]_vars

\* a rejected sample has been shown and nothing was built, sent or queued
C14_Witness ==
  /\ lastLocation = Shown
  /\ created = {}
  /\ posted = {}
  /\ \A h \in HandlerIds : handlers[h].pc = "idle"

\* C15: with either identifier unbound, handling a sample has no effect: the
\* callback is not called and no ping is built, for every accuracy and with
\* or without a callback; no step taken while unbound builds a ping, starts a
\* handler, shows a sample, issues a POST or writes the queue.
C15_UnboundSampleIgnored ==
  /\ [](\A a \in AccuracyValues, cb \in {foregroundCallback, TRUE, FALSE} :
          HandleSync(FALSE, cb, a) = [callbacks |-> 0, builds |-> FALSE])
  /\ [][~Bound
          => /\ created' = created
             /\ handlers' = handlers
             /\ lastLocation' = lastLocation
             /\ posted' = posted
             /\ offlineQueue' = offlineQueue]_vars

\* samples are being delivered to a controller that holds a callback and no
\* identifiers, and nothing has been shown or built
C15_Witness ==
  /\ ~Bound
  /\ liveWatchers > 0
  /\ foregroundCallback
  /\ lastLocation = NULL
  /\ created = {}

\* C16: at most one flusher timer is active and the stored handle tells
\* whether one is; the step in which init runs binds exactly the identifiers
\* it was given and leaves exactly one timer active.
C16_OneFlusherTimer ==
  /\ [](activeTimers <= 1 /\ (syncInterval <=> activeTimers = 1))
  /\ [][\A t \in TaskIds :
          (tasks[t].pc # "inited" /\ tasks'[t].pc = "inited")
            => /\ technicianId' = tasks'[t].technician
               /\ userId' = tasks'[t].user
               /\ syncInterval'
               /\ activeTimers' = 1]_vars

\* init ran a second time, with another technician, before the first call
\* was handed back: the later identifiers are bound and one timer is active
C16_Witness ==
  \E t, u \in TaskIds :
    /\ t # u
    /\ tasks[t].pc = "inited"
    /\ tasks[u].pc = "inited"
    /\ tasks[t].technician # tasks[u].technician
    /\ technicianId = tasks[u].technician
    /\ activeTimers = 1

\* C17: the step in which stopTracking returns, no other call of the
\* controller being in progress, leaves no background task and no foreground
\* watcher registered, no subscription stored, no flusher timer active, no
\* identifier bound and isTracking false.
C17_StopLeavesNothing ==
  [][\A t \in TaskIds :
       (/\ tasks[t].pc \in {"st_check", "st_stop"}
        /\ tasks'[t].pc = "idle"
        /\ \A u \in TaskIds \ {t} : tasks[u].pc = "idle")
         => /\ ~taskRegistered'
            /\ liveWatchers' = 0
            /\ ~foregroundSubscription'
            /\ activeTimers' = 0
            /\ ~syncInterval'
            /\ technicianId' = NULL
            /\ userId' = NULL
            /\ ~isTracking']_vars

\* C18: a startTracking call whose permission requests were granted returns
\* with isTracking set and with the background-mode flag telling whether the
\* background start succeeded; it does not end in an error.
C18_StartSucceeds ==
  [][\A t \in TaskIds :
       (tasks[t].pc \in {"bg", "watch", "nowatch"} /\ tasks'[t].pc = "idle")
         => /\ isTracking'
            /\ usingBackgroundTask' = (tasks[t].pc = "bg")]_vars

\* C19: the screen starts as loading and every change of the screen is one
\* of the seven listed transitions.
C19_ScreenTransitions ==
  /\ screen = "loading"
  /\ [][screen' # screen
          => <<screen, screen'>> \in
               {<<"loading", "register">>, <<"loading", "waiting">>,
                <<"loading", "tracking">>, <<"register", "waiting">>,
                <<"waiting", "tracking">>, <<"tracking", "waiting">>,
                <<"waiting", "register">>}]_vars

\* C20: the step in which the screen leaves loading enters tracking when a
\* session is persisted, with the in-memory session equal to the persisted
\* one and the controller bound to its technician and user; otherwise it
\* enters waiting when a user record is persisted, and register when none is.
C20_BootResolution ==
  [][(screen = "loading" /\ screen' # "loading")
       => IF sessionItem # NoSession
          THEN /\ screen' = "tracking"
               /\ activeSession' = sessionItem
               /\ technicianId' = sessionItem.technician
               /\ userId' = sessionItem.user
          ELSE IF registrationItem # NULL
               THEN screen' = "waiting"
               ELSE screen' = "register"]_vars

\* C21: a waiting poll that is answered ok with no shift or no technician,
\* while the screen is waiting, leaves the screen waiting, leaves pollError
\* false, and changes neither the three stored items nor the controller.
C21_WaitingNoShift ==
  [][\A t \in PollIds :
       (PollNoChange(t) /\ tasks[t].kind = "waiting" /\ screen = "waiting")
         => /\ screen' = "waiting"
            /\ ~pollError'
            /\ storeVars' = storeVars
            /\ lsVars' = lsVars
            /\ activeSession' = activeSession]_vars

\* the waiting screen with its interval set, the polls since it was entered
\* answered, the last of them ok with no shift: no error shown, no session
\* stored, the controller unbound and not tracking
C21_Witness ==
  /\ screen = "waiting"
  /\ registeredUser # NULL
  /\ pollIntervalRef
  /\ \A t \in TaskIds : tasks[t].pc = "idle"
  /\ ~pollError
  /\ sessionItem = NoSession
  /\ ~Bound
  /\ ~isTracking

\* C22: when a waiting poll that saw a shift registers an acquisition mode,
\* the stored queue holds no ping; when the screen goes from waiting to
\* tracking, a session is stored, the controller is tracking and bound to
\* that session's technician and user, and the in-memory session is the
\* stored one.
C22_ShiftStartOrder ==
  /\ [][\A t \in PollIds :
          (tasks[t].pc = "perm" /\ tasks'[t].pc \in {"bg", "watch"})
            => Len(Queue) = 0]_vars
  /\ [][(screen = "waiting" /\ screen' = "tracking")
          => /\ sessionItem # NoSession
             /\ isTracking
             /\ technicianId = sessionItem.technician
             /\ userId = sessionItem.user
             /\ activeSession' = sessionItem]_vars

\* C23: a waiting poll that fails on the waiting screen leaves the screen
\* waiting, sets pollError and changes none of the three stored items; and
\* after such a failure, unless the screen leaves waiting, another poll is
\* eventually issued.
C23_WaitingPollRetried ==
  /\ [][\A t \in PollIds :
          (PollFails(t) /\ tasks[t].kind = "waiting" /\ screen = "waiting")
            => /\ screen' = "waiting"
               /\ pollError'
               /\ storeVars' = storeVars]_vars
  /\ ((screen = "waiting" /\ \E t \in PollIds : tasks[t] = FailedTask)
        ~> (\/ screen # "waiting"
            \/ \A t \in PollIds : tasks[t] # FailedTask))

\* C24: the step that ends doStopTracking, begun by a tracking poll that saw
\* onShift false, enters waiting with no in-memory session, and at that step
\* the stored queue is empty, no session is stored, no identifier is bound
\* and no flusher timer is active.
C24_ShiftEndLeavesNothing ==
  [][\A t \in PollIds :
       (tasks[t].pc = "rs" /\ tasks'[t].pc # "rs")
         => /\ screen' = "waiting"
            /\ activeSession' = NoSession
            /\ Len(ParseQueue(offlineQueue')) = 0
            /\ sessionItem' = NoSession
            /\ technicianId' = NULL
            /\ userId' = NULL
            /\ activeTimers' = 0
            /\ ~syncInterval']_vars

\* C25: a tracking poll that fails on the tracking screen changes nothing:
\* the screen, the in-memory session and the tracking interval, the
\* controller's fields (identifiers, flags, registrations, timer), the three
\* stored items and pollError are as before.
C25_TrackingPollFailureIgnored ==
  [][\A t \in PollIds :
       (PollFails(t) /\ tasks[t].kind = "tracking" /\ screen = "tracking")
         => /\ screen' = "tracking"
            /\ activeSession' = activeSession
            /\ trackingInterval' = trackingInterval
            /\ lsVars' = lsVars
            /\ storeVars' = storeVars
            /\ pollError' = pollError]_vars

\* a tracking poll awaits its answer while the controller is tracking and
\* bound, a session is stored, pings are queued and no poll error is shown
C25_Witness ==
  /\ screen = "tracking"
  /\ \E t \in PollIds : tasks[t].pc = "fetch" /\ tasks[t].kind = "tracking"
  /\ isTracking
  /\ Bound
  /\ sessionItem # NoSession
  /\ Len(ParseQueue(offlineQueue)) > 0
  /\ ~pollError

\* C26: the step in which startTracking throws for a refused permission
\* leaves the screen as it was, no session stored, no background task and
\* no watcher registered, and isTracking false.
C26_PermissionDeniedMarksNothing ==
  [][\A t \in TaskIds :
       StartTrackingThrows(t)
         => /\ screen' = screen
            /\ sessionItem' = NoSession
            /\ ~taskRegistered'
            /\ liveWatchers' = 0
            /\ ~isTracking']_vars

\* C27: the step in which the registration call is answered with success
\* stores the returned user and leaves the screen as it is; the next step of
\* handleRegister enters waiting with that user, the record being stored
\* already; a registration call that fails leaves the screen, the in-memory
\* user and the stored record as they were.
C27_RegisterPersistsThenWaits ==
  /\ [][(tasks[BootTask].pc = "rpost" /\ tasks'[BootTask].pc = "rstore")
          => /\ registrationItem' = tasks'[BootTask].user
             /\ registrationItem' # NULL
             /\ screen' = screen
             /\ registeredUser' = registeredUser]_vars
  /\ [][(tasks[BootTask].pc = "rstore" /\ tasks'[BootTask].pc # "rstore")
          => /\ registrationItem = tasks[BootTask].user
             /\ registrationItem' = registrationItem
             /\ screen' = "waiting"
             /\ registeredUser' = registrationItem]_vars
  /\ [][(tasks[BootTask].pc = "rpost" /\ tasks'[BootTask].pc = "idle")
          => /\ screen' = screen
             /\ registeredUser' = registeredUser
             /\ registrationItem' = registrationItem]_vars

\* on the register screen, with no user in memory, the returned user has
\* been stored and the screen has not changed yet
C27_Witness ==
  /\ screen = "register"
  /\ registeredUser = NULL
  /\ tasks[BootTask].pc = "rstore"
  /\ registrationItem = tasks[BootTask].user
  /\ registrationItem # NULL

\* C28: no step of the unregister handler is taken on the tracking screen;
\* its last step leaves the waiting interval cleared, no user stored, no
\* user in memory and the screen register; and the screen leaves register
\* only by the step of handleRegister that follows a stored registration.
C28_UnregisterOnlyFromWaiting ==
  /\ [][(/\ tasks'[BootTask] # tasks[BootTask]
         /\ (tasks[BootTask].pc = "unreg" \/ tasks'[BootTask].pc = "unreg"))
          => screen # "tracking"]_vars
  /\ [][(tasks[BootTask].pc = "unreg" /\ tasks'[BootTask].pc # "unreg")
          => /\ ~pollIntervalRef'
             /\ registrationItem' = NULL
             /\ registeredUser' = NULL
             /\ screen' = "register"]_vars
  /\ [][(screen = "register" /\ screen' # "register")
          => /\ tasks[BootTask].pc = "rstore"
             /\ screen' = "waiting"]_vars

\* C29: a step of a flush run or of clearQueue changes neither the stored
\* session nor the stored user; a step of the unregister handler changes
\* neither the stored queue nor the stored session; the steps that write or
\* remove the session change neither the stored queue nor the stored user;
\* no step of doStopTracking changes the stored user.
C29_StoredItemsIndependent ==
  /\ [][(\/ flushes' # flushes
         \/ \E t \in PollIds :
              /\ tasks'[t].pc \in {"cq", "dq"}
              /\ tasks'[t].pc # tasks[t].pc)
          => /\ sessionItem' = sessionItem
             /\ registrationItem' = registrationItem]_vars
  /\ [][(/\ tasks'[BootTask] # tasks[BootTask]
         /\ (tasks[BootTask].pc = "unreg" \/ tasks'[BootTask].pc = "unreg"))
          => /\ offlineQueue' = offlineQueue
             /\ sessionItem' = sessionItem]_vars
  /\ [][sessionItem' # sessionItem
          => /\ offlineQueue' = offlineQueue
             /\ registrationItem' = registrationItem]_vars
  /\ [][\A t \in PollIds :
          (tasks[t].pc \in {"st_check", "st_stop", "dq", "rs"}
             /\ tasks'[t] # tasks[t])
            => registrationItem' = registrationItem]_vars

\* the unregister handler has removed the user record while a queue with
\* pings and a session are stored
C29_Witness ==
  /\ tasks[BootTask].pc = "unreg"
  /\ registrationItem = NULL
  /\ Len(ParseQueue(offlineQueue)) > 0
  /\ sessionItem # NoSession

\* C30: the waiting interval and the tracking interval are never both set;
\* the waiting interval is set only on the waiting screen and the tracking
\* interval only on the tracking screen.
C30_OnePollTimer ==
  /\ ~(pollIntervalRef /\ trackingInterval)
  /\ pollIntervalRef => screen = "waiting"
  /\ trackingInterval => screen = "tracking"

\* back on the waiting screen after a shift that started and ended: the
\* waiting interval is set again and the tracking interval is cleared
C30_Witness ==
  /\ screen = "waiting"
  /\ pollIntervalRef
  /\ ~trackingInterval
  /\ foregroundCallback
  /\ ~isTracking
  /\ shiftChanges = 2
  /\ sessionItem = NoSession
  /\ activeSession = NoSession
  /\ \E t \in PollIds : tasks[t].pc = "fetch" /\ tasks[t].kind = "waiting"

\* C31: no handler of the App ends with a rejection that nothing catches.
C31_NoUncaughtError ==
  \A t \in TaskIds : tasks[t] # UncaughtTask

\* C32: a clearQueue step leaves the queue item missing whatever it held;
\* an enqueue that read the missing item and writes with the item still
\* missing leaves a stored queue holding exactly its own ping.
C32_ClearThenEnqueue ==
  /\ [][\A t \in PollIds :
          (tasks'[t].pc \in {"cq", "dq"} /\ tasks'[t].pc # tasks[t].pc)
            => offlineQueue' = NoItem]_vars
  /\ [][\A h \in HandlerIds :
          (/\ handlers[h].pc = "enq"
           /\ handlers'[h].pc = "idle"
           /\ handlers[h].raw = NoItem
           /\ offlineQueue = NoItem)
            => offlineQueue' = Item(<<handlers[h].payload>>)]_vars

\* the queue left by the earlier run of the process was cleared (nothing was
\* ever posted) and the stored queue now holds one ping, built in this run
C32_Witness ==
  /\ offlineQueue.has
  /\ Len(offlineQueue.val) = 1
  /\ offlineQueue.val[1].id > QueueCapacity
  /\ OldPing(1) \in released
  /\ OldPing(QueueCapacity - 1) \in released
  /\ posted = {}

\* C33: on the waiting screen with a registered user and no runPoll call in
\* progress, the waiting interval is set.
C33_WaitingPollArmed ==
  (/\ screen = "waiting"
   /\ registeredUser # NULL
   /\ \A t \in PollIds : tasks[t].pc = "idle")
    => pollIntervalRef

\* C34: on the register or waiting screen with no boot, runPoll or
\* unregister call in progress, the service has no identifiers bound and no
\* flush interval set or still firing.
C34_IdleServiceUnbound ==
  (/\ screen \in {"register", "waiting"}
   /\ \A t \in TaskIds : tasks[t].pc = "idle")
    => /\ technicianId = NULL
       /\ userId = NULL
       /\ ~syncInterval
       /\ activeTimers = 0

\* C35: on the tracking screen with no boot or runPoll call in progress, the
\* identifiers bound in the service are those of the session in memory and
\* of the session stored.
C35_TrackingIdsMatchSession ==
  (/\ screen = "tracking"
   /\ \A t \in TaskIds : tasks[t].pc = "idle")
    => /\ sessionItem # NoSession
       /\ activeSession = sessionItem
       /\ technicianId = sessionItem.technician
       /\ userId = sessionItem.user

\* C36: the foreground watchers that deliver samples and the registered
\* background task are never more than one registration together, and a
\* stopTracking call that returns leaves none.
C36_OneRegistration ==
  /\ [](liveWatchers + (IF taskRegistered THEN 1 ELSE 0) <= 1)
  /\ [][\A t \in TaskIds :
          (tasks[t].pc \in {"st_check", "st_stop"} /\ tasks'[t].pc = "idle")
            => (liveWatchers' = 0 /\ ~taskRegistered')]_vars

\* C37: at most one flushQueue run is in progress, and no two runs in
\* progress have POSTed the same ping.
C37_OneFlushRun ==
  /\ Cardinality({f \in FlushIds : flushes[f].pc # "idle"}) <= 1
  /\ \A f, g \in FlushIds :
       (f # g /\ flushes[f].pc \in {"post", "set"}
              /\ flushes[g].pc \in {"post", "set"})
         => Range(Flatten(flushes[f].batches))
              \cap Range(Flatten(flushes[g].batches)) = {}

\* C38: on the register or waiting screen with no boot or runPoll call in
\* progress, no session is stored.
C38_NoSessionAtRest ==
  (/\ screen \in {"register", "waiting"}
   /\ \A t \in TaskIds : tasks[t].pc = "idle")
    => sessionItem = NoSession

\* C39: while the screen is waiting and no runPoll call is past its fetch
\* (no transition in progress), a stored queue that is empty stays empty.
C39_QueueStaysEmptyInWaiting ==
  [][(/\ screen = "waiting"
      /\ screen' = "waiting"
      /\ \A t \in PollIds : /\ tasks[t].pc \in {"idle", "fetch"}
                            /\ tasks'[t].pc \in {"idle", "fetch"}
      /\ Len(ParseQueue(offlineQueue)) = 0)
       => Len(ParseQueue(offlineQueue')) = 0]_vars

\* C40: no step of boot changes the stored queue; and from process start
\* to the first change of the shift, while no sample has been turned into a
\* ping, the stored queue is the queue the earlier run left without a prefix
\* of it, in the same order, and every ping of that prefix has been POSTed
\* and accepted.
C40_ResumeKeepsQueue ==
  /\ [][tasks'[BootTask] # tasks[BootTask] => offlineQueue' = offlineQueue]_vars
  /\ []((shiftChanges = 0 /\ created = {})
          => \E n \in {Len(OldQueue(QueueCapacity - 1)), QueueCapacity, 0} :
               \E k \in 0..n :
                 /\ Queue = SubSeq(OldQueue(n), k + 1, n)
                 /\ \A i \in 1..k : /\ OldPing(i) \in released
                                    /\ PostRecord(OldPing(i)) \in posted)

\* boot has resumed the stored session into tracking, and a flush run after
\* it has sent every ping the earlier run had left: all were POSTed and
\* accepted, none was built or cleared in this run, and the queue is gone
C40_Witness ==
  /\ screen = "tracking"
  /\ tasks[BootTask].pc = "idle"
  /\ sessionItem # NoSession
  /\ shiftChanges = 0
  /\ created = {}
  /\ ~offlineQueue.has
  /\ \A i \in 1..QueueCapacity : /\ OldPing(i) \in released
                                 /\ PostRecord(OldPing(i)) \in posted

====
